---- MODULE Spec2Model ----
(***************************************************************************)
(* Arcade Flow Analyzer (analyze_flow.py).                                 *)
(*                                                                         *)
(* Text is modelled as a sequence of one-character strings, so that        *)
(* str.lower, str.replace, str.strip, the `in` substring test and the      *)
(* f-string templates are computed character by character.  A dict is a    *)
(* record; dict.get(k, d) on a dict that lacks k is Get(r, k, d).           *)
(***************************************************************************)
EXTENDS Integers, Sequences, FiniteSets, TLC

VARIABLES
    flow_data,      \* FlowAnalyzer.flow_data: the loaded flow document
    pc,             \* position of the running code
    idx,            \* 1-based position of the for loop in progress
    interactions,   \* the list built by extract_user_interactions
    origin,         \* history: for each element of interactions, the record it was appended for
    files,          \* CACHE_DIR: cache key |-> text of the file {key}.json, for the files that exist
    last_put,       \* history: cache key |-> the data of the latest set_cache on it
    returned,       \* history: the latest cache call and, for get_cached, what it returned
    env,            \* what a run of main finds: OPENAI_API_KEY and the file flow.json
    summary,        \* generate_report's summary
    image_url,      \* generate_social_media_image's image_url
    images,         \* the image files written, oldest first
    report,         \* the file FLOW_REPORT.md
    exit_status,    \* how the latest run of main ended
    runs,           \* number of runs of main started
    issued,         \* number of image references the image service has returned
    expired,        \* the image references that no longer serve their image
    trace,          \* history of the current run: stages completed, service calls, cache hit
    first_summary   \* history: cache key |-> text of the first generate_summary that returned for it

extractVars ==
    <<flow_data, idx, interactions, origin>>

cacheVars ==
    <<files, last_put, returned>>

mainVars ==
    <<env, summary, image_url, images, report, exit_status, runs, issued, expired,
      trace, first_summary>>

vars ==
    <<flow_data, pc, idx, interactions, origin, files, last_put, returned,
      env, summary, image_url, images, report, exit_status, runs, issued, expired,
      trace, first_summary>>

(***************************************************************************)
(* Bounds of the model.                                                    *)
(***************************************************************************)
MaxSteps ==
    2
MaxEvents ==
    2
MaxLabelLen ==
    3
MaxTextLen ==
    2
MaxRuns ==
    3

(***************************************************************************)
(* String literals of the source.                                          *)
(***************************************************************************)
S_CHAPTER ==
    <<"C","H","A","P","T","E","R">>
S_IMAGE ==
    <<"I","M","A","G","E">>
S_VIDEO ==
    <<"V","I","D","E","O">>
S_thank_you ==
    <<"t","h","a","n","k"," ","y","o","u">>
S_chapter ==
    <<"c","h","a","p","t","e","r">>
S_click ==
    <<"c","l","i","c","k">>
S_StartedSection ==
    <<"S","t","a","r","t","e","d"," ","s","e","c","t","i","o","n",":"," ">>
S_typing ==
    <<"t","y","p","i","n","g">>
S_scrolling ==
    <<"s","c","r","o","l","l","i","n","g">>
S_scroll ==
    <<"s","c","r","o","l","l">>
S_TypedSearchQuery ==
    <<"T","y","p","e","d"," ","s","e","a","r","c","h"," ","q","u","e","r","y">>
S_UserEnteredText ==
    <<"U","s","e","r"," ","e","n","t","e","r","e","d"," ","t","e","x","t"," ","i","n"," ","s","e","a","r","c","h"," ","f","i","e","l","d">>
S_ScrolledPage ==
    <<"S","c","r","o","l","l","e","d"," ","p","a","g","e"," ","t","o"," ","v","i","e","w"," ","m","o","r","e"," ","c","o","n","t","e","n","t">>
S_UserBrowsed ==
    <<"U","s","e","r"," ","b","r","o","w","s","e","d"," ","t","h","r","o","u","g","h"," ","a","v","a","i","l","a","b","l","e"," ","o","p","t","i","o","n","s">>
S_button ==
    <<"b","u","t","t","o","n">>
S_image ==
    <<"i","m","a","g","e">>
S_link ==
    <<"l","i","n","k">>
S_other ==
    <<"o","t","h","e","r">>
S_cart ==
    <<"c","a","r","t">>
S_search ==
    <<"s","e","a","r","c","h">>
S_ClickedQ ==
    <<"C","l","i","c","k","e","d"," ","'">>
S_ClickedTheQ ==
    <<"C","l","i","c","k","e","d"," ","t","h","e"," ","'">>
S_QButton ==
    <<"'"," ","b","u","t","t","o","n">>
S_ClickedOnQ ==
    <<"C","l","i","c","k","e","d"," ","o","n"," ","'">>
S_QImage ==
    <<"'"," ","i","m","a","g","e">>
S_ClickedOnProductImage ==
    <<"C","l","i","c","k","e","d"," ","o","n"," ","p","r","o","d","u","c","t"," ","i","m","a","g","e">>
S_ClickedCartIcon ==
    <<"C","l","i","c","k","e","d"," ","o","n"," ","s","h","o","p","p","i","n","g"," ","c","a","r","t"," ","i","c","o","n"," ","t","o"," ","v","i","e","w"," ","c","a","r","t">>
S_ClickedLink ==
    <<"C","l","i","c","k","e","d"," ","l","i","n","k",":"," ">>
S_ClickedSearchBar ==
    <<"C","l","i","c","k","e","d"," ","t","h","e"," ","s","e","a","r","c","h"," ","b","a","r"," ","t","o"," ","s","t","a","r","t"," ","l","o","o","k","i","n","g"," ","f","o","r"," ","p","r","o","d","u","c","t","s">>
S_InteractedWith ==
    <<"I","n","t","e","r","a","c","t","e","d"," ","w","i","t","h"," ">>
S_PerformedAnAction ==
    <<"P","e","r","f","o","r","m","e","d"," ","a","n"," ","a","c","t","i","o","n">>

(***************************************************************************)
(* Python built-ins used by the source.                                    *)
(***************************************************************************)
UpperToLower ==
    "A" :> "a" @@ "B" :> "b" @@ "C" :> "c" @@ "D" :> "d" @@ "E" :> "e" @@ "F" :> "f" @@
    "G" :> "g" @@ "H" :> "h" @@ "I" :> "i" @@ "J" :> "j" @@ "K" :> "k" @@ "L" :> "l" @@
    "M" :> "m" @@ "N" :> "n" @@ "O" :> "o" @@ "P" :> "p" @@ "Q" :> "q" @@ "R" :> "r" @@
    "S" :> "s" @@ "T" :> "t" @@ "U" :> "u" @@ "V" :> "v" @@ "W" :> "w" @@ "X" :> "x" @@
    "Y" :> "y" @@ "Z" :> "z"

\* str.lower() of one character
LowerChar(c) ==
    IF c \in DOMAIN UpperToLower THEN UpperToLower[c] ELSE c

\* str.lower()
Lower(s) ==
    [i \in 1..Len(s) |-> LowerChar(s[i])]

\* sub in s
Contains(sub, s) ==
    \E i \in 0..(Len(s) - Len(sub)) : SubSeq(s, i + 1, i + Len(sub)) = sub

\* s.replace(c, '')
RemoveChar(s, c) ==
    SelectSeq(s, LAMBDA x : x # c)

\* the characters str.strip() removes
Whitespace ==
    {" ", "\t", "\n", "\r"}

\* s.strip()
Strip(s) ==
    LET keep == {i \in 1..Len(s) : s[i] \notin Whitespace}
    IN  IF keep = {} THEN <<>>
        ELSE SubSeq(s, CHOOSE i \in keep : \A j \in keep : i <= j,
                       CHOOSE i \in keep : \A j \in keep : i >= j)

\* d.get(k, default)
Get(d, k, default) ==
    IF k \in DOMAIN d THEN d[k] ELSE default

\* d.get(k): None when the key is absent
None ==
    <<"None">>

\* {}
EmptyDict ==
    [k \in {} |-> k]

(***************************************************************************)
(* CacheManager.  A cached value is None, a str or a dict of one str       *)
(* entry; the file holds the text json.dump writes and json.load parses.   *)
(***************************************************************************)
PyNone ==
    [kind |-> "None"]

PyStr(s) ==
    [kind |-> "str", chars |-> s]

PyDict(k, v) ==
    [kind |-> "dict", key |-> k, value |-> v]

\* what json.load raises on text that is no JSON document
JSONDecodeError ==
    [kind |-> "JSONDecodeError"]

QUOTE ==
    "\""
BACKSLASH ==
    "\\"
LF ==
    "\n"

\* json.dumps of one character of a str
EscapeChar(c) ==
    IF c = QUOTE THEN <<BACKSLASH, QUOTE>>
    ELSE IF c = BACKSLASH THEN <<BACKSLASH, BACKSLASH>>
    ELSE IF c = LF THEN <<BACKSLASH, "n">>
    ELSE <<c>>

\* json.dumps of a str
RECURSIVE DumpChars(_)
DumpChars(s) ==
    IF s = <<>> THEN <<>> ELSE EscapeChar(Head(s)) \o DumpChars(Tail(s))

DumpStr(s) ==
    <<QUOTE>> \o DumpChars(s) \o <<QUOTE>>

\* json.dump(data, f, indent=2)
JsonDump(data) ==
    IF data.kind = "None" THEN <<"n", "u", "l", "l">>
    ELSE IF data.kind = "str" THEN DumpStr(data.chars)
    ELSE <<"{", LF, " ", " ">> \o DumpStr(data.key) \o <<":", " ">>
         \o DumpStr(data.value) \o <<LF, "}">>

\* the JSON scanner: the first position from i on that holds no whitespace
RECURSIVE SkipWs(_, _)
SkipWs(c, i) ==
    IF i <= Len(c) /\ c[i] \in {" ", LF, "\t", "\r"} THEN SkipWs(c, i + 1) ELSE i

\* the character a backslash escape stands for
Unescape(c) ==
    IF c = "n" THEN LF ELSE c

\* the JSON scanner inside a string, from position i on, acc read so far
RECURSIVE ScanString(_, _, _)
ScanString(c, i, acc) ==
    IF i > Len(c) THEN [ok |-> FALSE]
    ELSE IF c[i] = QUOTE THEN [ok |-> TRUE, chars |-> acc, next |-> i + 1]
    ELSE IF c[i] = BACKSLASH
         THEN IF i + 1 > Len(c) THEN [ok |-> FALSE]
              ELSE ScanString(c, i + 2, Append(acc, Unescape(c[i + 1])))
    ELSE ScanString(c, i + 1, Append(acc, c[i]))

\* a JSON string starting at position i
ParseString(c, i) ==
    IF i <= Len(c) /\ c[i] = QUOTE THEN ScanString(c, i + 1, <<>>) ELSE [ok |-> FALSE]

\* a JSON object of one member starting at position i
ParseObject(c, i) ==
    LET k     == ParseString(c, SkipWs(c, i + 1))
        colon == IF k.ok THEN SkipWs(c, k.next) ELSE 0
        v     == IF k.ok /\ colon <= Len(c) /\ c[colon] = ":"
                 THEN ParseString(c, SkipWs(c, colon + 1)) ELSE [ok |-> FALSE]
        close == IF v.ok THEN SkipWs(c, v.next) ELSE 0
    IN  IF v.ok /\ close = Len(c) /\ c[close] = "}"
        THEN PyDict(k.chars, v.chars) ELSE JSONDecodeError

\* json.load(f)
JsonLoad(c) ==
    LET i == SkipWs(c, 1)
    IN  IF i > Len(c) THEN JSONDecodeError
        ELSE IF SubSeq(c, i, Len(c)) = <<"n", "u", "l", "l">> THEN PyNone
        ELSE IF c[i] = QUOTE
             THEN LET r == ParseString(c, i)
                  IN  IF r.ok /\ r.next = Len(c) + 1 THEN PyStr(r.chars)
                      ELSE JSONDecodeError
        ELSE IF c[i] = "{" THEN ParseObject(c, i)
        ELSE JSONDecodeError

\* CacheManager.get_cache_key: the digest of the JSON text with sorted keys.
\* A record has no key order, so data itself is the canonical form; the
\* digest is taken to be collision free.
get_cache_key(data) ==
    [md5 |-> data]

\* CacheManager.get_cached
get_cached(cache_key) ==
    IF cache_key \in DOMAIN files THEN JsonLoad(files[cache_key]) ELSE PyNone

\* set_cache that leaves an existing file as it is
set_cache_KeepExisting(cache_key, data) ==
    [k \in DOMAIN files \cup {cache_key} |->
        IF k \in DOMAIN files THEN files[k] ELSE JsonDump(data)]

\* CacheManager.set_cache: the cache directory after the call
set_cache(cache_key, data) ==
    [k \in DOMAIN files \cup {cache_key} |->
        IF k = cache_key THEN JsonDump(data) ELSE files[k]]

\* truthiness taken of the cached text instead of the cached dict
Truthy_OfText(x) ==
    IF x.kind = "None" THEN FALSE
    ELSE IF x.kind = "str" THEN x.chars # <<>>
    ELSE x.value # <<>>

\* bool(x) of a cached value
Truthy(x) ==
    IF x.kind = "None" THEN FALSE
    ELSE IF x.kind = "str" THEN x.chars # <<>>
    ELSE TRUE

(***************************************************************************)
(* FlowAnalyzer._generate_action_description                               *)
(***************************************************************************)
\* _generate_action_description without the .strip() of the cleaned label
_generate_action_description_NoStrip(text, element_type, click_context, page_context, hotspots) ==
    LET hotspot_label == Get(hotspots[1], "label", <<>>)
    IN  IF hotspots # <<>> /\ hotspot_label # <<>>
        THEN RemoveChar(hotspot_label, "*")
        ELSE IF element_type = S_button
        THEN IF Contains(S_cart, Lower(text))
             THEN S_ClickedQ \o text \o S_QButton
             ELSE S_ClickedTheQ \o text \o S_QButton
        ELSE IF element_type = S_image
        THEN IF text # <<>>
             THEN S_ClickedOnQ \o text \o S_QImage
             ELSE S_ClickedOnProductImage
        ELSE IF element_type = S_link
        THEN IF Contains(S_cart, Lower(text))
             THEN S_ClickedCartIcon
             ELSE S_ClickedLink \o text
        ELSE IF element_type = S_other /\ Contains(S_search, Lower(text))
        THEN S_ClickedSearchBar
        ELSE IF text # <<>>
        THEN S_InteractedWith \o text
        ELSE S_PerformedAnAction

_generate_action_description(text, element_type, click_context, page_context, hotspots) ==
    LET hotspot_label == Get(hotspots[1], "label", <<>>)
    IN  IF hotspots # <<>> /\ hotspot_label # <<>>
        THEN Strip(RemoveChar(hotspot_label, "*"))
        ELSE IF element_type = S_button
        THEN IF Contains(S_cart, Lower(text))
             THEN S_ClickedQ \o text \o S_QButton
             ELSE S_ClickedTheQ \o text \o S_QButton
        ELSE IF element_type = S_image
        THEN IF text # <<>>
             THEN S_ClickedOnQ \o text \o S_QImage
             ELSE S_ClickedOnProductImage
        ELSE IF element_type = S_link
        THEN IF Contains(S_cart, Lower(text))
             THEN S_ClickedCartIcon
             ELSE S_ClickedLink \o text
        ELSE IF element_type = S_other /\ Contains(S_search, Lower(text))
        THEN S_ClickedSearchBar
        ELSE IF text # <<>>
        THEN S_InteractedWith \o text
        ELSE S_PerformedAnAction

(***************************************************************************)
(* FlowAnalyzer.extract_user_interactions: what one pass of each loop      *)
(* appends to interactions.                                                *)
(***************************************************************************)
\* the CHAPTER branch
ChapterStep(step) ==
    LET title == Get(step, "title", <<>>)
    IN  IF title # <<>> /\ ~Contains(S_thank_you, Lower(title))
        THEN << [type    |-> S_chapter,
                 action  |-> S_StartedSection \o title,
                 details |-> Get(step, "subtitle", <<>>)] >>
        ELSE <<>>

\* the IMAGE branch
ImageStep(step) ==
    LET click_context == Get(step, "clickContext", EmptyDict)
        page_context  == Get(step, "pageContext", EmptyDict)
        hotspots      == Get(step, "hotspots", <<>>)
        element_text  == Get(click_context, "text", <<>>)
        element_type  == Get(click_context, "elementType", <<>>)
        url           == Get(page_context, "url", <<>>)
        action        == _generate_action_description(
                             element_text, element_type, click_context,
                             page_context, hotspots)
    IN  IF action # <<>>
        THEN << [type         |-> S_click,
                 action       |-> action,
                 url          |-> url,
                 element_type |-> element_type] >>
        ELSE <<>>

\* the body of `for step in steps`
StepInteractions(step) ==
    LET step_type == Get(step, "type", None)
    IN  IF step_type = S_CHAPTER THEN ChapterStep(step)
        ELSE IF step_type = S_IMAGE THEN ImageStep(step)
        ELSE <<>>

\* the body of `for event in events`
EventInteractions(event) ==
    LET event_type == Get(event, "type", None)
    IN  IF event_type = S_typing
        THEN << [type    |-> S_typing,
                 action  |-> S_TypedSearchQuery,
                 details |-> S_UserEnteredText] >>
        ELSE IF event_type = S_scrolling
        THEN << [type    |-> S_scroll,
                 action  |-> S_ScrolledPage,
                 details |-> S_UserBrowsed] >>
        ELSE <<>>

\* extract_user_interactions as a whole: the steps loop, then the events loop
RECURSIVE FlatMapSteps(_)
FlatMapSteps(steps) ==
    IF steps = <<>> THEN <<>>
    ELSE StepInteractions(Head(steps)) \o FlatMapSteps(Tail(steps))

RECURSIVE FlatMapEvents(_)
FlatMapEvents(events) ==
    IF events = <<>> THEN <<>>
    ELSE EventInteractions(Head(events)) \o FlatMapEvents(Tail(events))

extract_user_interactions(doc) ==
    FlatMapSteps(Get(doc, "steps", <<>>)) \o FlatMapEvents(Get(doc, "capturedEvents", <<>>))

(***************************************************************************)
(* Flow documents the analyzer is run on.                                  *)
(***************************************************************************)
\* all sequences over S of length at most n
RECURSIVE SeqsUpTo(_, _)
SeqsUpTo(S, n) ==
    IF n = 0 THEN {<<>>}
    ELSE LET shorter == SeqsUpTo(S, n - 1)
         IN  shorter \cup {Append(q, x) : q \in shorter, x \in S}

T_Find ==
    <<"F","i","n","d">>
T_ThankYou ==
    <<"B","y","e",","," ","T","h","a","n","k"," ","Y","o","u">>
T_TEXT ==
    <<"T","E","X","T">>
T_Hi ==
    <<"H","i">>
T_Cart ==
    <<"C","a","r","t">>
T_Search ==
    <<"S","e","a","r","c","h">>
T_Url ==
    <<"h","t","t","p","s",":","/","/","x">>
T_StarLabel ==
    <<"S","e","a","r","c","h","*">>
T_dragging ==
    <<"d","r","a","g","g","i","n","g">>
T_hover ==
    <<"h","o","v","e","r">>
T_div ==
    <<"d","i","v">>

\* hotspot labels: every string over these characters up to MaxLabelLen
LabelChars ==
    {"*", " ", "a"}
Labels ==
    SeqsUpTo(LabelChars, MaxLabelLen)

\* clickContext dicts, with and without their keys
ClickContexts ==
    {EmptyDict, [text |-> <<>>, elementType |-> <<>>]}
    \cup {[text |-> <<>>, elementType |-> e] : e \in {S_button, S_image, S_link, T_div}}
    \cup {[text |-> T_Hi], [elementType |-> S_button]}
    \cup {[text |-> t, elementType |-> e] :
            t \in {T_Cart, T_Search, T_Hi}, e \in {S_button, S_link, S_other}}
    \cup {[text |-> T_Hi, elementType |-> S_image]}

\* IMAGE steps in all their variety
ImageSteps ==
    {[type |-> S_IMAGE, hotspots |-> <<[label |-> l]>>,
      clickContext |-> [text |-> T_Cart, elementType |-> S_button],
      pageContext |-> [url |-> T_Url]] : l \in Labels}
    \cup {[type |-> S_IMAGE, hotspots |-> h, clickContext |-> c,
           pageContext |-> [url |-> T_Url]] :
            h \in {<<>>, <<[label |-> <<>>]>>, <<EmptyDict>>}, c \in ClickContexts}
    \cup {[type |-> S_IMAGE],
          [type |-> S_IMAGE, hotspots |-> <<[label |-> <<"a">>], [label |-> <<"*">>]>>]}

\* the steps that documents of several steps are made of
CommonSteps ==
    { [type |-> S_CHAPTER, title |-> T_Find],
      [type |-> S_CHAPTER, title |-> T_ThankYou, subtitle |-> T_Hi],
      [type |-> S_IMAGE, hotspots |-> <<[label |-> T_StarLabel]>>,
       pageContext |-> [url |-> T_Url]],
      [type |-> S_IMAGE, hotspots |-> <<>>,
       clickContext |-> [text |-> <<>>, elementType |-> S_button]],
      [type |-> S_VIDEO, title |-> T_Hi],
      [type |-> T_TEXT, title |-> T_Hi, subtitle |-> T_Find] }

\* steps that stand alone in a document
SingleSteps ==
    ImageSteps
    \cup {[type |-> S_CHAPTER], [type |-> S_CHAPTER, title |-> <<>>],
          [type |-> T_TEXT, title |-> <<>>], [type |-> T_TEXT], [title |-> T_Hi],
          [type |-> S_VIDEO]}

EventKinds ==
    {S_typing, S_scrolling, T_dragging, S_click, T_hover}

Events ==
    {[type |-> k] : k \in EventKinds}

FlowDocs ==
    {[name |-> T_Find, steps |-> s, capturedEvents |-> e] :
        s \in SeqsUpTo(CommonSteps, MaxSteps), e \in SeqsUpTo(Events, MaxEvents)}
    \cup {[name |-> T_Find, steps |-> <<s>>, capturedEvents |-> e] :
        s \in SingleSteps, e \in {<<>>, <<EmptyDict>>}}
    \cup {EmptyDict, [steps |-> <<[type |-> S_VIDEO]>>], [capturedEvents |-> <<[type |-> S_click]>>]}

(***************************************************************************)
(* State of main before its first run.                                     *)
(***************************************************************************)
\* the history of a run that has done nothing yet
NewTrace ==
    [stages |-> {}, llm_calls |-> 0, image_calls |-> 0,
     hit |-> FALSE, hit_url |-> <<>>, hit_stale |-> FALSE,
     report_touched |-> FALSE, report_at_start |-> [exists |-> FALSE]]

MainIdle ==
    /\ env = [api_key |-> FALSE, flow_file |-> [exists |-> FALSE]]
    /\ summary = <<>>
    /\ image_url = <<>>
    /\ images = <<>>
    /\ report = [exists |-> FALSE]
    /\ exit_status = "none"
    /\ runs = 0
    /\ issued = 0
    /\ expired = {}
    /\ trace = NewTrace
    /\ first_summary = EmptyDict

(***************************************************************************)
(* extract_user_interactions, one loop iteration per action.               *)
(***************************************************************************)
steps ==
    Get(flow_data, "steps", <<>>)

events ==
    Get(flow_data, "capturedEvents", <<>>)

\* AppendFor with interactions.insert(0, ...) in place of interactions.append(...)
AppendFor_Prepend(src, d) ==
    /\ interactions' = d \o interactions
    /\ origin' = [i \in 1..Len(d) |-> [src |-> src, index |-> idx]] \o origin
    /\ idx' = idx + 1
    /\ UNCHANGED <<flow_data, pc, cacheVars, mainVars>>

\* interactions.append(...) for the record at position idx of loop src, if d holds a descriptor
AppendFor(src, d) ==
    /\ interactions' = interactions \o d
    /\ origin' = origin \o [i \in 1..Len(d) |-> [src |-> src, index |-> idx]]
    /\ idx' = idx + 1
    /\ UNCHANGED <<flow_data, pc, cacheVars, mainVars>>

StepChapter ==
    /\ pc = "steps" /\ idx <= Len(steps)
    /\ Get(steps[idx], "type", None) = S_CHAPTER
    /\ AppendFor("step", ChapterStep(steps[idx]))

StepImage ==
    /\ pc = "steps" /\ idx <= Len(steps)
    /\ Get(steps[idx], "type", None) = S_IMAGE
    /\ AppendFor("step", ImageStep(steps[idx]))

StepVideo ==
    /\ pc = "steps" /\ idx <= Len(steps)
    /\ Get(steps[idx], "type", None) = S_VIDEO
    /\ AppendFor("step", <<>>)

\* no branch of the if/elif chain matches
StepUnmatched ==
    /\ pc = "steps" /\ idx <= Len(steps)
    /\ Get(steps[idx], "type", None) \notin {S_CHAPTER, S_IMAGE, S_VIDEO}
    /\ AppendFor("step", <<>>)

\* the steps loop ends, the events loop starts
StepsExhausted ==
    /\ pc = "steps" /\ idx > Len(steps)
    /\ pc' = "events" /\ idx' = 1
    /\ UNCHANGED <<flow_data, interactions, origin, cacheVars, mainVars>>

EventTyping ==
    /\ pc = "events" /\ idx <= Len(events)
    /\ Get(events[idx], "type", None) = S_typing
    /\ AppendFor("event", EventInteractions(events[idx]))

EventScrolling ==
    /\ pc = "events" /\ idx <= Len(events)
    /\ Get(events[idx], "type", None) = S_scrolling
    /\ AppendFor("event", EventInteractions(events[idx]))

EventUnmatched ==
    /\ pc = "events" /\ idx <= Len(events)
    /\ Get(events[idx], "type", None) \notin {S_typing, S_scrolling}
    /\ AppendFor("event", <<>>)

\* return interactions
ExtractReturn ==
    /\ pc = "events" /\ idx > Len(events)
    /\ pc' = "extracted"
    /\ UNCHANGED <<flow_data, idx, interactions, origin, cacheVars, mainVars>>

InitExtract ==
    /\ flow_data \in FlowDocs
    /\ pc = "steps"
    /\ idx = 1
    /\ interactions = <<>>
    /\ origin = <<>>
    /\ files = EmptyDict
    /\ last_put = EmptyDict
    /\ returned = [op |-> "none"]
    /\ MainIdle

NextExtract ==
    \/ StepChapter
    \/ StepImage
    \/ StepVideo
    \/ StepUnmatched
    \/ StepsExhausted
    \/ EventTyping
    \/ EventScrolling
    \/ EventUnmatched
    \/ ExtractReturn

SpecExtract ==
    InitExtract /\ [][NextExtract]_vars


(***************************************************************************)
(* Properties of extract_user_interactions.                                *)
(***************************************************************************)
\* positions of interactions appended for record j of loop src
DescsOf(src, j) ==
    {i \in 1..Len(origin) : origin[i] = [src |-> src, index |-> j]}

\* C5: the returned sequence is the step-derived descriptors in the order of
\* their steps followed by the event-derived descriptors in the order of their
\* events; no event-derived descriptor precedes a step-derived one, each
\* record contributes at most one descriptor, and each descriptor is the one
\* derived from its record.
C5_StepsThenEventsInOrder ==
    /\ Len(origin) = Len(interactions)
    /\ \A i, j \in 1..Len(origin) :
          i < j =>
            /\ origin[i].src = "event" => origin[j].src = "event"
            /\ origin[i].src = origin[j].src => origin[i].index < origin[j].index
    /\ \A i \in 1..Len(origin) :
          /\ origin[i].src = "step" =>
                /\ origin[i].index \in 1..Len(steps)
                /\ StepInteractions(steps[origin[i].index]) = <<interactions[i]>>
          /\ origin[i].src = "event" =>
                /\ origin[i].index \in 1..Len(events)
                /\ EventInteractions(events[origin[i].index]) = <<interactions[i]>>
    /\ pc = "extracted" => Len(interactions) <= Len(steps) + Len(events)

\* C5 witness: a finished extraction that returned two step-derived
\* descriptors followed by two event-derived ones
C5_Witness ==
    /\ pc = "extracted"
    /\ Len(origin) = 4
    /\ origin[1] = [src |-> "step", index |-> 1]
    /\ origin[2] = [src |-> "step", index |-> 2]
    /\ origin[3] = [src |-> "event", index |-> 1]
    /\ origin[4] = [src |-> "event", index |-> 2]
    /\ interactions[1] # interactions[2]
    /\ interactions[3] # interactions[4]

\* the descriptor table of the claim C6
L_DraggedElement ==
    <<"D","r","a","g","g","e","d"," ","e","l","e","m","e","n","t">>
L_ClickedOnPage ==
    <<"C","l","i","c","k","e","d"," ","o","n"," ","p","a","g","e">>
C6_FixedAction(kind) ==
    IF kind = S_typing THEN S_TypedSearchQuery
    ELSE IF kind = S_scrolling THEN S_ScrolledPage
    ELSE IF kind = T_dragging THEN L_DraggedElement
    ELSE L_ClickedOnPage

\* C6: every event of kind typing, scrolling, dragging or click yields exactly
\* one descriptor, with the fixed action of its kind; an event of any other
\* kind yields none.
C6_EveryListedEventKindEmits ==
    pc = "extracted" =>
        \A j \in 1..Len(events) :
            LET kind == Get(events[j], "type", None)
                ds   == DescsOf("event", j)
            IN  IF kind \in {S_typing, S_scrolling, T_dragging, S_click}
                THEN /\ Cardinality(ds) = 1
                     /\ \A i \in ds : interactions[i].action = C6_FixedAction(kind)
                ELSE ds = {}

\* text of the claim C7
L_Clicked ==
    <<"C","l","i","c","k","e","d"," ">>
L_ColonSpace ==
    <<":"," ">>

\* the step has no usable hotspot label
NoUsableLabel(step) ==
    LET hotspots == Get(step, "hotspots", <<>>)
    IN  hotspots = <<>> \/ Get(hotspots[1], "label", <<>>) = <<>>

\* C7: an IMAGE step with no usable hotspot label yields one click descriptor
\* "Clicked {elementType}: {text}" (": {text}" omitted when text is empty)
\* when text or elementType is non-empty, and nothing when both are empty.
C7_ClickContextFallback ==
    pc = "extracted" =>
        \A j \in 1..Len(steps) :
            LET step == steps[j]
                cc   == Get(step, "clickContext", EmptyDict)
                text == Get(cc, "text", <<>>)
                et   == Get(cc, "elementType", <<>>)
                ds   == DescsOf("step", j)
            IN  (Get(step, "type", None) = S_IMAGE /\ NoUsableLabel(step)) =>
                    IF text # <<>> \/ et # <<>>
                    THEN /\ Cardinality(ds) = 1
                         /\ \A i \in ds :
                              /\ interactions[i].type = S_click
                              /\ interactions[i].action =
                                    L_Clicked \o et \o
                                    (IF text = <<>> THEN <<>> ELSE L_ColonSpace \o text)
                    ELSE ds = {}

\* C9: a step whose tag is none of CHAPTER, IMAGE, VIDEO yields exactly one
\* descriptor (kind the lowercased tag, action "Interacted with {tag}: {title}",
\* details the subtitle) when its title is non-empty and nothing otherwise; a
\* VIDEO step yields nothing.
C9_OtherTagsAndVideo ==
    pc = "extracted" =>
        \A j \in 1..Len(steps) :
            LET step  == steps[j]
                tag   == Get(step, "type", None)
                title == Get(step, "title", <<>>)
                ds    == DescsOf("step", j)
            IN  /\ tag = S_VIDEO => ds = {}
                /\ (tag \notin {S_CHAPTER, S_IMAGE, S_VIDEO, None}) =>
                      IF title # <<>>
                      THEN /\ Cardinality(ds) = 1
                           /\ \A i \in ds :
                                /\ interactions[i].type = Lower(tag)
                                /\ interactions[i].action =
                                      S_InteractedWith \o tag \o L_ColonSpace \o title
                                /\ interactions[i].details = Get(step, "subtitle", <<>>)
                      ELSE ds = {}

\* the step is an IMAGE step whose first hotspot has a non-empty label
HasLabel(step) ==
    /\ Get(step, "type", None) = S_IMAGE
    /\ ~NoUsableLabel(step)

\* the label without its '*' characters and surrounding whitespace
CleanLabel(step) ==
    Strip(RemoveChar(Get(step, "hotspots", <<>>)[1].label, "*"))

\* the descriptors of step j are one click descriptor carrying the cleaned label
OneClickWithCleanLabel(j) ==
    /\ Cardinality(DescsOf("step", j)) = 1
    /\ \A i \in DescsOf("step", j) :
          /\ interactions[i].type = S_click
          /\ interactions[i].action = CleanLabel(steps[j])
          /\ interactions[i].url = Get(Get(steps[j], "pageContext", EmptyDict), "url", <<>>)

\* C10 as stated: every IMAGE step with a non-empty first hotspot label yields
\* exactly one click descriptor whose action is the cleaned label, whatever
\* the label is made of.
C10_EveryLabelEmits ==
    pc = "extracted" =>
        \A j \in 1..Len(steps) : HasLabel(steps[j]) => OneClickWithCleanLabel(j)

\* C10 amended: such a step yields exactly one click descriptor carrying the
\* cleaned label when the cleaned label is non-empty, and nothing when the
\* label is made only of '*' and whitespace.
C10_NonEmptyCleanLabelEmits ==
    pc = "extracted" =>
        \A j \in 1..Len(steps) :
            HasLabel(steps[j]) =>
                IF CleanLabel(steps[j]) # <<>>
                THEN OneClickWithCleanLabel(j)
                ELSE DescsOf("step", j) = {}

\* C10 witness: a label whose cleaning removes a star and a space has been
\* extracted, beside a clickContext that the fallback would have described
C10_Witness ==
    /\ pc = "extracted"
    /\ Len(steps) = 1
    /\ HasLabel(steps[1])
    /\ steps[1].hotspots[1].label = <<" ", "*", "a">>
    /\ steps[1].clickContext.text = T_Cart
    /\ Len(interactions) = 1
    /\ interactions[1].action = <<"a">>

(***************************************************************************)
(* The cache store on its own: any sequence of set_cache and get_cached.   *)
(***************************************************************************)
S_summary ==
    <<"s","u","m","m","a","r","y">>
S_image_url ==
    <<"i","m","a","g","e","_","u","r","l">>

TextChars ==
    {QUOTE, BACKSLASH, "n"}

Texts ==
    SeqsUpTo(TextChars, MaxTextLen)

\* the values stored
CacheValues ==
    {PyNone} \cup {PyStr(t) : t \in Texts} \cup {PyDict(S_summary, t) : t \in Texts}

\* the keys stored under
CacheKeys ==
    {get_cache_key([task |-> t]) : t \in {S_summary, S_image}}

SetCacheCall(k, v) ==
    /\ pc = "cache"
    /\ files' = set_cache(k, v)
    /\ last_put' = [x \in DOMAIN last_put \cup {k} |-> IF x = k THEN v ELSE last_put[x]]
    /\ returned' = [op |-> "set_cache"]
    /\ UNCHANGED <<pc, extractVars, mainVars>>

GetCachedCall(k) ==
    /\ pc = "cache"
    /\ returned' = [op |-> "get_cached", key |-> k, value |-> get_cached(k), before |-> files]
    /\ UNCHANGED <<pc, extractVars, files, last_put, mainVars>>

InitCache ==
    /\ pc = "cache"
    /\ flow_data = EmptyDict
    /\ idx = 1
    /\ interactions = <<>>
    /\ origin = <<>>
    /\ files = EmptyDict
    /\ last_put = EmptyDict
    /\ returned = [op |-> "none"]
    /\ MainIdle

NextCache ==
    \/ \E k \in CacheKeys, v \in CacheValues : SetCacheCall(k, v)
    \/ \E k \in CacheKeys : GetCachedCall(k)

SpecCache ==
    InitCache /\ [][NextCache]_vars

\* what the claim C8 says get(k) returns
C8_Expected(k) ==
    IF k \in DOMAIN last_put THEN last_put[k] ELSE PyNone

\* C8: after any sequence of set_cache and get_cached, get_cached(k) is None
\* when no set_cache(k, _) was ever made and otherwise equals the data of the
\* latest set_cache(k, data); a get_cached call returns that and leaves every
\* entry as it was.
C8_GetReturnsLatestPut ==
    /\ \A k \in CacheKeys : get_cached(k) = C8_Expected(k)
    /\ returned.op = "get_cached" =>
          /\ returned.value = C8_Expected(returned.key)
          /\ files = returned.before

\* C8 witness: a key was put twice with different data holding characters
\* that JSON escapes, and a get has returned the latest data
C8_Witness ==
    /\ returned.op = "get_cached"
    /\ returned.key \in DOMAIN last_put
    /\ returned.value = PyDict(S_summary, <<BACKSLASH, "n">>)
    /\ returned.before[returned.key] # JsonDump(PyStr(<<QUOTE>>))
    /\ \E k \in CacheKeys : k # returned.key /\ k \in DOMAIN last_put
                            /\ last_put[k] = PyStr(<<QUOTE>>)

(***************************************************************************)
(* main, FlowAnalyzer.generate_report, generate_summary and                *)
(* generate_social_media_image.  The cache directory, the image files and  *)
(* the report outlive a run; everything else starts afresh with each run.  *)
(***************************************************************************)
S_ArcadeFlow ==
    <<"A","r","c","a","d","e"," ","F","l","o","w">>

\* flow documents main is run on: DocB differs from DocA by a VIDEO step
\* only, DocC has no name, DocBad holds a clickContext of null
DocA ==
    [name |-> T_Find,
     steps |-> <<[type |-> S_CHAPTER, title |-> T_Find]>>,
     capturedEvents |-> <<[type |-> S_typing]>>]
DocB ==
    [name |-> T_Find,
     steps |-> <<[type |-> S_CHAPTER, title |-> T_Find], [type |-> S_VIDEO]>>,
     capturedEvents |-> <<[type |-> S_typing]>>]
DocC ==
    [steps |-> <<[type |-> S_IMAGE, hotspots |-> <<[label |-> T_StarLabel]>>]>>]
DocBad ==
    [name |-> T_Find,
     steps |-> <<[type |-> S_IMAGE, clickContext |-> PyNone]>>]

MainDocs ==
    {DocA, DocB, DocC, DocBad}

\* flow.json: missing, not JSON, or one of the documents
FlowFiles ==
    {[exists |-> FALSE], [exists |-> TRUE, valid |-> FALSE]}
    \cup {[exists |-> TRUE, valid |-> TRUE, doc |-> d] : d \in MainDocs}

\* response.choices[0].message.content of the text service
Completions ==
    {<<" ">>, <<" ", "a">>, <<QUOTE, BACKSLASH>>}

\* the n-th reference returned by the image service
Digits ==
    <<"1", "2", "3", "4", "5", "6", "7", "8", "9">>
Url(n) ==
    <<"u", Digits[n]>>

\* requests.get(url): status and content
Fetch(url) ==
    IF url \in expired
    THEN [ok |-> FALSE, content |-> [kind |-> "error_text", of |-> url]]
    ELSE [ok |-> TRUE, content |-> [kind |-> "png", of |-> url]]

\* click_context.get on a clickContext of null raises AttributeError
ExtractionRaises(doc) ==
    \E i \in 1..Len(Get(doc, "steps", <<>>)) :
        /\ Get(Get(doc, "steps", <<>>)[i], "type", None) = S_IMAGE
        /\ Get(Get(doc, "steps", <<>>)[i], "clickContext", EmptyDict) = PyNone

\* the cache key generate_summary computes
SummaryKey ==
    get_cache_key([task |-> S_summary,
                   flow_name |-> Get(flow_data, "name", <<>>),
                   interactions |-> interactions])

\* the cache key generate_social_media_image computes
ImageKey ==
    get_cache_key([task |-> S_image,
                   flow_name |-> Get(flow_data, "name", S_ArcadeFlow),
                   summary |-> summary])

\* sys.exit(1), reached from the checks of main or from its except clause
Exit1 ==
    /\ pc' = "exited"
    /\ exit_status' = "1"

\* a run of main starts
MainStart ==
    /\ pc \in {"idle", "exited"}
    /\ runs < MaxRuns
    /\ runs' = runs + 1
    /\ \E k \in BOOLEAN, f \in FlowFiles : env' = [api_key |-> k, flow_file |-> f]
    /\ pc' = "main"
    /\ exit_status' = "running"
    /\ flow_data' = EmptyDict
    /\ interactions' = <<>>
    /\ summary' = <<>>
    /\ image_url' = <<>>
    /\ trace' = [NewTrace EXCEPT !.report_at_start = report]
    /\ UNCHANGED <<idx, origin, cacheVars, images, report, issued, expired, first_summary>>

\* if not os.getenv('OPENAI_API_KEY'): sys.exit(1)
MainNoApiKey ==
    /\ pc = "main"
    /\ ~env.api_key
    /\ Exit1
    /\ UNCHANGED <<extractVars, cacheVars, env, summary, image_url, images, report,
                   runs, issued, expired, trace, first_summary>>

\* if not os.path.exists(flow_path): sys.exit(1)
MainNoFlow ==
    /\ pc = "main"
    /\ env.api_key
    /\ ~env.flow_file.exists
    /\ Exit1
    /\ UNCHANGED <<extractVars, cacheVars, env, summary, image_url, images, report,
                   runs, issued, expired, trace, first_summary>>

\* FlowAnalyzer(flow_path)
LoadFlow ==
    /\ pc = "main"
    /\ env.api_key
    /\ env.flow_file.exists
    /\ env.flow_file.valid
    /\ flow_data' = env.flow_file.doc
    /\ pc' = "extract"
    /\ UNCHANGED <<idx, interactions, origin, cacheVars, env, summary, image_url, images,
                   report, exit_status, runs, issued, expired, trace, first_summary>>

\* FlowAnalyzer(flow_path) raises: json.load fails
LoadFlowRaises ==
    /\ pc = "main"
    /\ env.api_key
    /\ env.flow_file.exists
    /\ ~env.flow_file.valid
    /\ Exit1
    /\ UNCHANGED <<extractVars, cacheVars, env, summary, image_url, images, report,
                   runs, issued, expired, trace, first_summary>>

\* interactions = self.extract_user_interactions()
ReportExtract ==
    /\ pc = "extract"
    /\ ~ExtractionRaises(flow_data)
    /\ interactions' = extract_user_interactions(flow_data)
    /\ trace' = [trace EXCEPT !.stages = @ \cup {"extraction"}]
    /\ pc' = "summary"
    /\ UNCHANGED <<flow_data, idx, origin, cacheVars, env, summary, image_url, images,
                   report, exit_status, runs, issued, expired, first_summary>>

ReportExtractRaises ==
    /\ pc = "extract"
    /\ ExtractionRaises(flow_data)
    /\ Exit1
    /\ UNCHANGED <<extractVars, cacheVars, env, summary, image_url, images, report,
                   runs, issued, expired, trace, first_summary>>

\* history: the text generate_summary returned first for a key
NoteSummary(key, text) ==
    first_summary' =
        IF key \in DOMAIN first_summary THEN first_summary
        ELSE [k \in DOMAIN first_summary \cup {key} |->
                IF k = key THEN text ELSE first_summary[k]]

\* generate_summary, cache hit: return cached['summary']
SummaryCached ==
    /\ pc = "summary"
    /\ Truthy(get_cached(SummaryKey))
    /\ summary' = get_cached(SummaryKey).value
    /\ NoteSummary(SummaryKey, get_cached(SummaryKey).value)
    /\ trace' = [trace EXCEPT !.stages = @ \cup {"summary"}]
    /\ pc' = "image"
    /\ UNCHANGED <<extractVars, cacheVars, env, image_url, images, report, exit_status,
                   runs, issued, expired>>

\* generate_summary, cache miss: call the text service, cache, return
SummaryGenerate(content) ==
    /\ pc = "summary"
    /\ ~Truthy(get_cached(SummaryKey))
    /\ summary' = Strip(content)
    /\ files' = set_cache(SummaryKey, PyDict(S_summary, Strip(content)))
    /\ NoteSummary(SummaryKey, Strip(content))
    /\ trace' = [trace EXCEPT !.stages = @ \cup {"summary"}, !.llm_calls = @ + 1]
    /\ pc' = "image"
    /\ UNCHANGED <<extractVars, last_put, returned, env, image_url, images, report,
                   exit_status, runs, issued, expired>>

\* generate_summary, cache miss: the call to the text service raises
SummaryRaises ==
    /\ pc = "summary"
    /\ ~Truthy(get_cached(SummaryKey))
    /\ trace' = [trace EXCEPT !.llm_calls = @ + 1]
    /\ Exit1
    /\ UNCHANGED <<extractVars, cacheVars, env, summary, image_url, images, report,
                   runs, issued, expired, first_summary>>

\* generate_social_media_image, cache hit: image_url = cached['image_url']
ImageCached ==
    /\ pc = "image"
    /\ Truthy(get_cached(ImageKey))
    /\ image_url' = get_cached(ImageKey).value
    /\ trace' = [trace EXCEPT !.hit = TRUE,
                              !.hit_url = get_cached(ImageKey).value,
                              !.hit_stale = get_cached(ImageKey).value \in expired]
    /\ pc' = "download"
    /\ UNCHANGED <<extractVars, cacheVars, env, summary, images, report, exit_status,
                   runs, issued, expired, first_summary>>

\* generate_social_media_image, cache miss: call the image service, cache
ImageGenerate ==
    /\ pc = "image"
    /\ ~Truthy(get_cached(ImageKey))
    /\ issued' = issued + 1
    /\ image_url' = Url(issued + 1)
    /\ files' = set_cache(ImageKey, PyDict(S_image_url, Url(issued + 1)))
    /\ trace' = [trace EXCEPT !.image_calls = @ + 1]
    /\ pc' = "download"
    /\ UNCHANGED <<extractVars, last_put, returned, env, summary, images, report,
                   exit_status, runs, expired, first_summary>>

\* ImageRaises with the exception swallowed: the report is written all the same
ImageRaises_Swallowed ==
    /\ pc = "image"
    /\ ~Truthy(get_cached(ImageKey))
    /\ trace' = [trace EXCEPT !.image_calls = @ + 1]
    /\ pc' = "write"
    /\ UNCHANGED <<extractVars, cacheVars, env, summary, image_url, images, report,
                   exit_status, runs, issued, expired, first_summary>>

\* generate_social_media_image, cache miss: the call to the image service raises
ImageRaises ==
    /\ pc = "image"
    /\ ~Truthy(get_cached(ImageKey))
    /\ trace' = [trace EXCEPT !.image_calls = @ + 1]
    /\ Exit1
    /\ UNCHANGED <<extractVars, cacheVars, env, summary, image_url, images, report,
                   runs, issued, expired, first_summary>>

\* img_data = requests.get(image_url).content, written to the image file
Download ==
    /\ pc = "download"
    /\ images' = Append(images, [url |-> image_url,
                                 ok |-> Fetch(image_url).ok,
                                 content |-> Fetch(image_url).content])
    /\ trace' = [trace EXCEPT !.stages = @ \cup {"image"}]
    /\ pc' = "write"
    /\ UNCHANGED <<extractVars, cacheVars, env, summary, image_url, report, exit_status,
                   runs, issued, expired, first_summary>>

\* requests.get raises: no connection
DownloadRaises ==
    /\ pc = "download"
    /\ Exit1
    /\ UNCHANGED <<extractVars, cacheVars, env, summary, image_url, images, report,
                   runs, issued, expired, trace, first_summary>>

\* the report is composed and written to FLOW_REPORT.md; main ends normally
WriteReport ==
    /\ pc = "write"
    /\ report' = [exists |-> TRUE, complete |-> TRUE,
                  flow_name |-> Get(flow_data, "name", <<>>),
                  summary |-> summary,
                  interactions |-> interactions,
                  image |-> Len(images)]
    /\ trace' = [trace EXCEPT !.report_touched = TRUE]
    /\ pc' = "exited"
    /\ exit_status' = "0"
    /\ UNCHANGED <<extractVars, cacheVars, env, summary, image_url, images,
                   runs, issued, expired, first_summary>>

\* writing FLOW_REPORT.md raises after open() has truncated the file
WriteReportRaises ==
    /\ pc = "write"
    /\ report' = [exists |-> TRUE, complete |-> FALSE]
    /\ trace' = [trace EXCEPT !.report_touched = TRUE]
    /\ Exit1
    /\ UNCHANGED <<extractVars, cacheVars, env, summary, image_url, images,
                   runs, issued, expired, first_summary>>

\* an image reference stops serving its image
ExpireUrl(n) ==
    /\ pc \in {"idle", "exited"}
    /\ n \in 1..issued
    /\ Url(n) \notin expired
    /\ expired' = expired \cup {Url(n)}
    /\ UNCHANGED <<pc, extractVars, cacheVars, env, summary, image_url, images, report,
                   exit_status, runs, issued, trace, first_summary>>

Init ==
    /\ pc = "idle"
    /\ flow_data = EmptyDict
    /\ idx = 1
    /\ interactions = <<>>
    /\ origin = <<>>
    /\ files = EmptyDict
    /\ last_put = EmptyDict
    /\ returned = [op |-> "none"]
    /\ MainIdle

Next ==
    \/ MainStart
    \/ MainNoApiKey
    \/ MainNoFlow
    \/ LoadFlow
    \/ LoadFlowRaises
    \/ ReportExtract
    \/ ReportExtractRaises
    \/ SummaryCached
    \/ \E content \in Completions : SummaryGenerate(content)
    \/ SummaryRaises
    \/ ImageCached
    \/ ImageGenerate
    \/ ImageRaises
    \/ Download
    \/ DownloadRaises
    \/ WriteReport
    \/ WriteReportRaises
    \/ \E n \in 1..MaxRuns : ExpireUrl(n)

Spec ==
    Init /\ [][Next]_vars

(***************************************************************************)
(* Properties of main and of the two generators.                           *)
(***************************************************************************)
\* C1: when the cache holds an image reference and that reference is dead at
\* the time of the hit, a fresh image-generation call is issued and the
\* download is made from the new reference, never from the cached one.
C1_StaleHitRegenerates ==
    (pc \in {"download", "write"} /\ trace.hit /\ trace.hit_stale) =>
        /\ trace.image_calls = 1
        /\ image_url # trace.hit_url
        /\ pc = "write" => images[Len(images)].url # trace.hit_url

AllStages ==
    {"extraction", "summary", "image"}

\* C2: FLOW_REPORT.md is written only after extraction, summary generation
\* and image generation have all completed in the run; a run in which one of
\* them failed leaves the report file exactly as it found it and exits with
\* status 1.
C2_ReportOnlyAfterAllStages ==
    /\ (trace.report_touched \/ report # trace.report_at_start) => trace.stages = AllStages
    /\ exit_status = "0" => (trace.stages = AllStages /\ report.exists /\ report.complete)
    /\ (pc = "exited" /\ runs > 0 /\ trace.stages # AllStages) =>
          /\ exit_status = "1"
          /\ ~trace.report_touched
          /\ report = trace.report_at_start

\* C2 witness: a run has exited with status 1 after its image stage failed,
\* and the report of an earlier run is still in place, untouched
C2_Witness ==
    /\ pc = "exited"
    /\ exit_status = "1"
    /\ trace.stages = {"extraction", "summary"}
    /\ trace.image_calls = 1
    /\ report.exists
    /\ report.complete
    /\ report = trace.report_at_start

\* C3: a generate_summary that misses the cache and returns has called the
\* text service once and left the returned text in the cache under the
\* request's key; one that hits returns the cached text without a call.
\* Hence, once generate_summary has returned for a request, every later
\* generate_summary for an identical request returns that same text and calls
\* the text service not at all, whatever runs came in between.
C3_RepeatSummaryFromCache ==
    [][/\ (pc = "summary" /\ pc' = "image" /\ SummaryKey \notin DOMAIN files) =>
            /\ trace'.llm_calls = trace.llm_calls + 1
            /\ SummaryKey \in DOMAIN files'
            /\ JsonLoad(files'[SummaryKey]) = PyDict(S_summary, summary')
       /\ (pc = "summary" /\ SummaryKey \in DOMAIN files) =>
            /\ pc' = "image"
            /\ PyDict(S_summary, summary') = JsonLoad(files[SummaryKey])
            /\ trace'.llm_calls = trace.llm_calls
            /\ files' = files
       /\ (pc = "summary" /\ SummaryKey \in DOMAIN first_summary) =>
            /\ pc' = "image"
            /\ summary' = first_summary[SummaryKey]
            /\ trace'.llm_calls = trace.llm_calls
            /\ files' = files]_vars

\* C3 witness: the third run got an empty summary from the cache without a
\* call, after runs that summarized two different requests
C3_Witness ==
    /\ pc = "image"
    /\ runs = 3
    /\ "summary" \in trace.stages
    /\ trace.llm_calls = 0
    /\ Cardinality(DOMAIN first_summary) = 2
    /\ summary = <<>>
    /\ first_summary[SummaryKey] = <<>>

\* C4: an image file is written only with content that passed verification:
\* the fetch answered with success and the content is no textual error
\* payload.
C4_OnlyVerifiedContentWritten ==
    \A i \in 1..Len(images) :
        /\ images[i].ok
        /\ images[i].content.kind = "png"

====
